---- MODULE Spec2Model ----
(***************************************************************************)
(* The question form (three revisions of QuestionForm), the App component  *)
(* that holds the results list, and the remote similarity service seen as  *)
(* a source of responses.                                                  *)
(*                                                                         *)
(*   rev = 1   QuestionForm, manual fields only         (POST /check-batch)*)
(*   rev = 2   QuestionForm, manual fields + file       (POST /check-file) *)
(*   rev = 3   QuestionForm, manual + pasted + file     (POST /upload)     *)
(*                                                                         *)
(* A string is a sequence of one-character strings, so that trim, split    *)
(* and replace are computed character by character as the code does.       *)
(* An optional value (T | null | undefined) is <<>> or <<v>>.              *)
(***************************************************************************)
EXTENDS Integers, Sequences, FiniteSets, TLC

\* ------------------------------------------------------------------ bounds
MaxTextLen == 5
MaxResults == 1
MaxInFlight == 1

\* ------------------------------------------------------- program constants
MaxQuestions == 5

\* ----------------------------------------------------------------- options
Null == <<>>
Some(v) == <<v>>
IsSome(o) == o # <<>>
Val(o) == o[1]

\* ----------------------------------------------------------------- strings
LF == "\n"
SP == " "
EmptyStr == <<>>

\* White space as matched by \s and removed by String.prototype.trim.
IsWs(c) == c \in {SP, LF, "\t", "\r"}

RECURSIVE TrimStart(_)
TrimStart(s) ==
  IF s = <<>> THEN <<>>
  ELSE IF IsWs(Head(s)) THEN TrimStart(Tail(s)) ELSE s

RECURSIVE TrimEnd(_)
TrimEnd(s) ==
  IF s = <<>> THEN <<>>
  ELSE IF IsWs(s[Len(s)]) THEN TrimEnd(SubSeq(s, 1, Len(s) - 1)) ELSE s

\* q.trim()
Trim(s) == TrimEnd(TrimStart(s))

\* q.trim() !== ""
NonBlank(s) == Trim(s) # EmptyStr

\* q.replace(/\n/g, " ")
ReplaceLF(s) == [i \in 1..Len(s) |-> IF s[i] = LF THEN SP ELSE s[i]]

\* Variant: the list is sent as typed, without the filter.
SelectWithoutFilter(qs) == qs

\* Array.prototype.filter
RECURSIVE SelectNonBlank(_)
SelectNonBlank(qs) ==
  IF qs = <<>> THEN <<>>
  ELSE IF NonBlank(Head(qs)) THEN <<Head(qs)>> \o SelectNonBlank(Tail(qs))
       ELSE SelectNonBlank(Tail(qs))

RECURSIVE SelectNonEmpty(_)
SelectNonEmpty(qs) ==
  IF qs = <<>> THEN <<>>
  ELSE IF Head(qs) # EmptyStr THEN <<Head(qs)>> \o SelectNonEmpty(Tail(qs))
       ELSE SelectNonEmpty(Tail(qs))

SetMax(S) == CHOOSE m \in S : \A x \in S : x <= m

\* ------------------------------------------------- the pasted-text splitter
\* Last position of the maximal white-space run that starts at i (i - 1 when
\* s[i] is not white space): what the greedy \s* consumes from i.
RECURSIVE WsRunEnd(_, _)
WsRunEnd(s, i) ==
  IF i > Len(s) THEN Len(s)
  ELSE IF IsWs(s[i]) THEN WsRunEnd(s, i + 1) ELSE i - 1

\* Variant: the separator /\n\n/, without white space between the breaks.
SeparatorEndAdjacent(s, q) ==
  IF s[q] = LF /\ q < Len(s) /\ s[q + 1] = LF THEN q + 1 ELSE 0

\* Match of /\n\s*\n/ anchored at position q: the position of the last
\* character of the match, or 0 when there is no match at q.  After the greedy
\* \s* the matcher backtracks to the last line feed of the run.
SeparatorEnd(s, q) ==
  IF s[q] # LF THEN 0
  ELSE LET r == WsRunEnd(s, q + 1)
           lfs == {k \in (q + 1)..r : s[k] = LF}
       IN IF lfs = {} THEN 0 ELSE SetMax(lfs)

\* String.prototype.split(separator) for a separator that never matches the
\* empty string: p is the start of the current piece, q the scan position.
RECURSIVE SplitFrom(_, _, _)
SplitFrom(s, p, q) ==
  IF q > Len(s) THEN <<SubSeq(s, p, Len(s))>>
  ELSE LET e == SeparatorEnd(s, q)
       IN IF e = 0 THEN SplitFrom(s, p, q + 1)
          ELSE <<SubSeq(s, p, q - 1)>> \o SplitFrom(s, e + 1, e + 1)

SplitBlankLines(s) == SplitFrom(s, 1, 1)

\* .map((q) => q.trim().replace(/\n/g, " "))
NormalizeUnit(u) == ReplaceLF(Trim(u))

\* pastedQuestions.split(/\n\s*\n/).map(...).filter((q) => q !== "")
ParsePasted(s) ==
  LET pieces == SplitBlankLines(s)
  IN SelectNonEmpty([i \in 1..Len(pieces) |-> NormalizeUnit(pieces[i])])

\* ------------------------------------------------------------ input domains
SeqsUpTo(S, n) == UNION {[1..k -> S] : k \in 0..n}

\* What the user may type into one manual field.
FieldValues == {EmptyStr, <<SP>>, <<"a">>}

\* What the user may put into the textarea of revision 3.
PastedValues ==
  {EmptyStr, <<SP>>, <<"a">>, <<"a", LF, "b">>, <<"a", LF, LF, "b">>}

XLS == "application/vnd.ms-excel"
XLSX == "application/vnd.openxmlformats-officedocument.spreadsheetml.sheet"
TXT == "text/plain"
CSV == "text/csv"
PDF == "application/pdf"

\* A File is identified by its declared MIME type.
Files == {XLS, XLSX, TXT, CSV, PDF}

\* The server's QuestionResult records, opaque to the form.
ResultIds == {"r1", "r2"}
ResultLists == SeqsUpTo(ResultIds, MaxResults)

\* Values of an `error` field in a response body, and of err.message.
ErrorFields == {Null, Some(""), Some("Server says no")}
ErrMessages == {"", "Request failed with status code 500"}

CheckBatch == "/check-batch"
CheckFile == "/check-file"
Upload == "/upload"

NoResp ==
  [ok |-> FALSE, success |-> FALSE, results |-> Null, error |-> Null,
   message |-> ""]

\* What axios.post may settle with: a resolved response body (ok) or a
\* rejection carrying err.response?.data?.error and err.message.
Resolutions(url) ==
  IF url = CheckBatch
  THEN {[NoResp EXCEPT !.ok = TRUE, !.results = r] :
          r \in {Null} \cup {Some(l) : l \in ResultLists}}
  ELSE {[NoResp EXCEPT !.ok = TRUE, !.success = s, !.results = r, !.error = e] :
          s \in BOOLEAN, r \in {Null} \cup {Some(l) : l \in ResultLists},
          e \in ErrorFields}

Rejections ==
  {[NoResp EXCEPT !.error = e, !.message = m] :
     e \in ErrorFields, m \in ErrMessages}

Settlements(url) == Resolutions(url) \cup Rejections

\* JavaScript truthiness of a string.
Truthy(str) == str # ""

\* Variant: err.message || err.response?.data?.error || literal
OrElseMessageFirst(optStr, str, literal) ==
  IF Truthy(str) THEN str
  ELSE IF IsSome(optStr) /\ Truthy(Val(optStr)) THEN Val(optStr) ELSE literal

\* a || b || c on optional strings, c a non-empty literal
OrElse(optStr, str, literal) ==
  IF IsSome(optStr) /\ Truthy(Val(optStr)) THEN Val(optStr)
  ELSE IF Truthy(str) THEN str ELSE literal

\* -------------------------------------------------------------------- state
VARIABLES
  rev,              \* which revision of QuestionForm is mounted
  questions,        \* useState<string[]>([""])
  pastedQuestions,  \* useState<string>("")            (revision 3)
  file,             \* useState<File | null>(null)     (revisions 2, 3)
  error,            \* useState<string | null>(null)
  isSubmitting,     \* useState(false)
  uploadProgress,   \* useState<number>(0)             (revision 3)
  results,          \* App: useState<QuestionResult[]>([])
  inflight,         \* requests sent and not yet settled
  last,             \* the event handled last, with the settlement it consumed
  text,             \* splitter harness: the pasted text
  questionList,     \* splitter harness: the list computed from text
  resultsRev,       \* which revision of QuestionResults is mounted
  resultsProp,      \* QuestionResults: the `results` prop
  view,             \* QuestionResults: what the last render displayed
  stats,            \* QuestionResults: the stats prop  (revisions 3 to 5)
  statsPanel,       \* QuestionResults: the stats panel last displayed
  cleanedFileName,  \* QuestionResults: the cleanedFileName / cleanedFilePath prop
  downloadError,    \* useState<string | null>(null)
  isDownloading,    \* useState(false)             (revisions 3 to 5)
  resetStatus,      \* useState({loading, error, success})  (revisions 4, 5)
  downloads,        \* GET /download requests sent and not yet settled
  resets,           \* POST /reset-questions requests sent and not yet settled
  timers,           \* setTimeout callbacks scheduled and not yet run
  exported          \* the rows of the file written by handleDownload

formVars ==
  <<rev, questions, pastedQuestions, file, error, isSubmitting,
    uploadProgress, results, inflight, last>>
splitVars == <<text, questionList>>
renderVars == <<resultsRev, resultsProp, view, stats, statsPanel>>
actionVars ==
  <<cleanedFileName, downloadError, isDownloading, resetStatus, downloads,
    resets, timers, exported>>
resultsVars == <<renderVars, actionVars>>
vars == <<formVars, splitVars, resultsVars>>

\* A request: the endpoint, the JSON body's `questions` and the multipart
\* body's `file`.
Request(url, qs, f) == [url |-> url, questions |-> qs, file |-> f]
NoReq == Request("", <<>>, Null)

\* The record kept in `last`: the event, the request it sent or settled (for
\* a file selection: the file the dialog delivered) and the settlement.
Event(name, req, resp) == [ev |-> name, req |-> req, resp |-> resp]
Ev(name) == Event(name, NoReq, NoResp)

InitForm ==
  /\ rev \in {1, 2, 3}
  /\ questions = <<EmptyStr>>
  /\ pastedQuestions = EmptyStr
  /\ file = Null
  /\ error = Null
  /\ isSubmitting = FALSE
  /\ uploadProgress = 0
  /\ results = Some(<<>>)
  /\ inflight = <<>>
  /\ last = Ev("mount")

\* the state of QuestionResults after construction
InitResultsState ==
  /\ view = Null
  /\ statsPanel = Null
  /\ downloadError = Null
  /\ isDownloading = FALSE
  /\ resetStatus = [loading |-> FALSE, error |-> Null, success |-> FALSE]
  /\ downloads = 0
  /\ resets = 0
  /\ timers = 0
  /\ exported = Null

\* QuestionResults mounted by App with an empty list and no other prop
InitResults ==
  /\ resultsRev = 5
  /\ resultsProp = <<>>
  /\ cleanedFileName = Null
  /\ stats = Null
  /\ InitResultsState

Init ==
  /\ InitForm
  /\ text = EmptyStr
  /\ questionList = Null
  /\ InitResults

\* ------------------------------------------------------- derived view state
\* questions.every((q) => q.trim() === "")
AllBlank == \A i \in DOMAIN questions : ~NonBlank(questions[i])

\* disabled attribute of the manual text inputs
isManualInputDisabled ==
  CASE rev = 1 -> FALSE
    [] rev = 2 -> isSubmitting \/ file # Null
    [] rev = 3 -> isSubmitting \/ file # Null \/ NonBlank(pastedQuestions)

\* disabled attribute of the file input
isFileUploadDisabled ==
  CASE rev = 2 -> isSubmitting
    [] rev = 3 -> isSubmitting \/ ~AllBlank \/ NonBlank(pastedQuestions)

\* disabled attribute of the textarea
isPastedInputDisabled == isSubmitting \/ file # Null \/ ~AllBlank

\* Variant: the remove button rendered for a single field too.
RemoveOfferedOnSingle ==
  /\ Len(questions) > 0
  /\ CASE rev = 1 -> TRUE
       [] rev = 2 -> ~isSubmitting
       [] rev = 3 -> ~isManualInputDisabled

\* the remove button of a field is rendered and enabled
RemoveOffered ==
  /\ Len(questions) > 1
  /\ CASE rev = 1 -> TRUE
       [] rev = 2 -> ~isSubmitting
       [] rev = 3 -> ~isManualInputDisabled

\* the add button is rendered and enabled
AddOffered ==
  /\ Len(questions) < MaxQuestions
  /\ ~isSubmitting
  /\ rev \in {2, 3} => file = Null
  /\ rev = 3 => ~NonBlank(pastedQuestions)

\* the clear-textarea button is rendered and enabled
ClearPastedOffered == NonBlank(pastedQuestions) /\ ~isSubmitting

\* the remove-file button is rendered and enabled
RemoveFileOffered == file # Null /\ ~isSubmitting

\* Variant: the submit button not disabled while a request is pending.
SubmitDisabledIgnoringPending ==
  CASE rev = 1 -> AllBlank
    [] rev = 2 -> file = Null /\ AllBlank
    [] rev = 3 -> file = Null /\ AllBlank /\ ~NonBlank(pastedQuestions)

\* disabled attribute of the submit button
SubmitDisabled ==
  \/ isSubmitting
  \/ CASE rev = 1 -> AllBlank
       [] rev = 2 -> file = Null /\ AllBlank
       [] rev = 3 -> file = Null /\ AllBlank /\ ~NonBlank(pastedQuestions)

\* the `required` attribute of the inputs of revision 1 blocks interactive
\* submission while a field is empty
RequiredSatisfied ==
  rev = 1 => \A i \in DOMAIN questions : questions[i] # EmptyStr

\* ------------------------------------------------------------ edit handlers
RemoveAt(seq, i) == SubSeq(seq, 1, i - 1) \o SubSeq(seq, i + 1, Len(seq))

handleAddQuestion ==
  /\ questions' =
       IF Len(questions) < MaxQuestions THEN Append(questions, EmptyStr)
       ELSE questions
  /\ last' = Ev("add")
  /\ UNCHANGED <<rev, pastedQuestions, file, error, isSubmitting,
                 uploadProgress, results, inflight>>

handleRemoveQuestion(index) ==
  /\ questions' = RemoveAt(questions, index)
  /\ last' = Ev("remove")
  /\ UNCHANGED <<rev, pastedQuestions, file, error, isSubmitting,
                 uploadProgress, results, inflight>>

handleQuestionChange(index, value) ==
  /\ questions' = [questions EXCEPT ![index] = value]
  /\ last' = Ev("change")
  /\ UNCHANGED <<rev, pastedQuestions, file, error, isSubmitting,
                 uploadProgress, results, inflight>>

handlePastedQuestionsChange(value) ==
  /\ pastedQuestions' = value
  /\ error' = Null
  /\ last' = Ev("paste")
  /\ UNCHANGED <<rev, questions, file, isSubmitting, uploadProgress,
                 results, inflight>>

handleClearPastedQuestions ==
  /\ pastedQuestions' = EmptyStr
  /\ error' = Null
  /\ last' = Ev("clearPasted")
  /\ UNCHANGED <<rev, questions, file, isSubmitting, uploadProgress,
                 results, inflight>>

\* Variant: an allow-list that also lets one more type through.
allowedTypesWider == IF rev = 2 THEN {TXT, CSV, PDF} ELSE {XLS, XLSX, TXT}

\* the allow-list of handleFileChange
allowedTypes == IF rev = 2 THEN {TXT, CSV} ELSE {XLS, XLSX}

FileTypeError ==
  IF rev = 2 THEN "Please upload a .txt or .csv file."
  ELSE "Please upload an Excel file (.xls, .xlsx)."

\* selected = e.target.files?.[0]: Null when the dialog delivered no file
handleFileChange(selected) ==
  /\ IF selected = Null
     THEN /\ UNCHANGED <<file, error>>
          /\ last' = Ev("fileNone")
     ELSE IF Val(selected) \in allowedTypes
     THEN /\ file' = selected
          /\ error' = Null
          /\ last' = Event("fileAccepted", Request("", <<>>, selected), NoResp)
     ELSE /\ error' = Some(FileTypeError)
          /\ file' = Null
          /\ last' = Event("fileRejected", Request("", <<>>, selected), NoResp)
  /\ UNCHANGED <<rev, questions, pastedQuestions, isSubmitting,
                 uploadProgress, results, inflight>>

\* onClick of the remove-file button
removeFile ==
  /\ file' = Null
  /\ last' = Ev("removeFile")
  /\ UNCHANGED <<rev, questions, pastedQuestions, error, isSubmitting,
                 uploadProgress, results, inflight>>

\* ------------------------------------------------------------------- submit
\* the synchronous part of handleSubmit up to its await: one POST is issued
Post(req) ==
  /\ error' = Null
  /\ isSubmitting' = TRUE
  /\ uploadProgress' = 0
  /\ inflight' = Append(inflight, req)
  /\ last' = Event("submit", req, NoResp)
  /\ UNCHANGED <<rev, questions, pastedQuestions, file, results>>

\* the handler without its finally block: the validation error is shown but
\* the pending flag is never cleared
ThrowWithoutFinally(message) ==
  /\ error' = Some(OrElse(Null, message, "An error occurred"))
  /\ isSubmitting' = TRUE
  /\ uploadProgress' = 0
  /\ last' = Ev("invalid")
  /\ UNCHANGED <<rev, questions, pastedQuestions, file, results, inflight>>

\* throw new Error(message) before any await: catch and finally run in the
\* same task, so the handler ends with the message shown and no request
Throw(message) ==
  /\ error' = Some(OrElse(Null, message, "An error occurred"))
  /\ isSubmitting' = FALSE
  /\ uploadProgress' = 0
  /\ last' = Ev("invalid")
  /\ UNCHANGED <<rev, questions, pastedQuestions, file, results, inflight>>

\* revision 1: no emptiness check
handleSubmit1 == Post(Request(CheckBatch, SelectNonBlank(questions), Null))

handleSubmit2 ==
  IF file # Null THEN Post(Request(CheckFile, <<>>, file))
  ELSE IF SelectNonBlank(questions) = <<>>
  THEN Throw("Please enter at least one question or upload a file.")
  ELSE Post(Request(CheckBatch, SelectNonBlank(questions), Null))

handleSubmit3 ==
  IF file # Null THEN Post(Request(Upload, <<>>, file))
  ELSE IF Trim(pastedQuestions) # EmptyStr
  THEN IF ParsePasted(pastedQuestions) = <<>>
       THEN Throw("Please enter at least one valid question, separated by double newlines.")
       ELSE Post(Request(CheckBatch, ParsePasted(pastedQuestions), Null))
  ELSE IF SelectNonBlank(questions) = <<>>
  THEN Throw("Please enter at least one question, paste questions, or upload a file.")
  ELSE Post(Request(CheckBatch, SelectNonBlank(questions), Null))

handleSubmit ==
  CASE rev = 1 -> handleSubmit1
    [] rev = 2 -> handleSubmit2
    [] rev = 3 -> handleSubmit3

\* ------------------------------------------------- after the await settles
\* Variant: resetForm without setPastedQuestions("").
resetFormKeepingPasted ==
  /\ file' = Null
  /\ questions' = <<EmptyStr>>
  /\ UNCHANGED pastedQuestions

resetForm ==
  /\ file' = Null
  /\ questions' = <<EmptyStr>>
  /\ pastedQuestions' = EmptyStr

\* App: onSubmit={(results) => setResults(results)}
onSubmit(newResults) == results' = newResults

\* revision 1, lines 45-53
settled1(resp) ==
  /\ IF resp.ok
     THEN /\ onSubmit(resp.results)
          /\ questions' = <<EmptyStr>>
          /\ UNCHANGED error
     ELSE /\ error' = Some(OrElse(resp.error, "", "An error occurred"))
          /\ UNCHANGED <<results, questions>>
  /\ isSubmitting' = FALSE
  /\ UNCHANGED <<pastedQuestions, file, uploadProgress>>

\* revision 2, lines 65-69, 79-87
settled2(req, resp) ==
  /\ IF resp.ok
     THEN /\ onSubmit(resp.results)
          /\ questions' = <<EmptyStr>>
          /\ file' = IF req.url = CheckFile THEN Null ELSE file
          /\ UNCHANGED error
     ELSE /\ error' = Some(OrElse(resp.error, resp.message, "An error occurred"))
          /\ UNCHANGED <<results, questions, file>>
  /\ isSubmitting' = FALSE
  /\ UNCHANGED <<pastedQuestions, uploadProgress>>

\* revision 3, lines 305-310, 325-326, 338-346
settled3(req, resp) ==
  /\ IF resp.ok
     THEN /\ IF req.url = Upload /\ ~resp.success
             THEN /\ error' = Some(OrElse(resp.error, "",
                              "An error occurred while processing the file."))
                  /\ UNCHANGED results
             ELSE /\ onSubmit(resp.results)
                  /\ UNCHANGED error
          /\ resetForm
     ELSE /\ error' = Some(OrElse(resp.error, resp.message, "An error occurred"))
          /\ UNCHANGED <<results, questions, pastedQuestions, file>>
  /\ isSubmitting' = FALSE
  /\ uploadProgress' = 0

\* Variant: a rejected request is sent again by the handler itself.
handleSettledRetrying(i, resp) ==
  /\ inflight' = IF resp.ok THEN RemoveAt(inflight, i)
                 ELSE Append(RemoveAt(inflight, i), inflight[i])
  /\ last' = Event(IF resp.ok THEN "resolved" ELSE "rejected", inflight[i], resp)
  /\ UNCHANGED rev
  /\ CASE rev = 1 -> settled1(resp)
       [] rev = 2 -> settled2(inflight[i], resp)
       [] rev = 3 -> settled3(inflight[i], resp)

\* the continuation of handleSubmit for the request at position i
handleSettled(i, resp) ==
  /\ inflight' = RemoveAt(inflight, i)
  /\ last' = Event(IF resp.ok THEN "resolved" ELSE "rejected", inflight[i], resp)
  /\ UNCHANGED rev
  /\ CASE rev = 1 -> settled1(resp)
       [] rev = 2 -> settled2(inflight[i], resp)
       [] rev = 3 -> settled3(inflight[i], resp)

\* onUploadProgress: Math.round((loaded * 100) / total)
Percents == {50, 100}

onUploadProgress(percentCompleted) ==
  /\ uploadProgress' = percentCompleted
  /\ last' = Ev("progress")
  /\ UNCHANGED <<rev, questions, pastedQuestions, file, error, isSubmitting,
                 results, inflight>>

\* ------------------------------------------------------------------- events
AddClick == AddOffered /\ handleAddQuestion

RemoveClick ==
  /\ RemoveOffered
  /\ \E i \in DOMAIN questions : handleRemoveQuestion(i)

TypeQuestion ==
  /\ ~isManualInputDisabled
  /\ \E i \in DOMAIN questions, v \in FieldValues :
       v # questions[i] /\ handleQuestionChange(i, v)

TypePasted ==
  /\ rev = 3
  /\ ~isPastedInputDisabled
  /\ \E v \in PastedValues :
       v # pastedQuestions /\ handlePastedQuestionsChange(v)

ClearPastedClick ==
  /\ rev = 3
  /\ ClearPastedOffered
  /\ handleClearPastedQuestions

ChooseFile ==
  /\ rev \in {2, 3}
  /\ ~isFileUploadDisabled
  /\ \E sel \in {Null} \cup {Some(f) : f \in Files} : handleFileChange(sel)

RemoveFileClick ==
  /\ rev \in {2, 3}
  /\ RemoveFileOffered
  /\ removeFile

SubmitClick ==
  /\ ~SubmitDisabled
  /\ RequiredSatisfied
  /\ handleSubmit

\* a submit event dispatched on the form element itself: onSubmit runs
\* handleSubmit whatever the state of the submit button
SubmitDispatched ==
  /\ Len(inflight) < MaxInFlight
  /\ handleSubmit

Settle ==
  \E i \in DOMAIN inflight :
    \E resp \in Settlements(inflight[i].url) : handleSettled(i, resp)

UploadProgress ==
  /\ rev = 3
  /\ \E i \in DOMAIN inflight : inflight[i].url = Upload
  /\ \E p \in Percents : onUploadProgress(p)

UserEdit ==
  \/ AddClick
  \/ RemoveClick
  \/ TypeQuestion
  \/ TypePasted
  \/ ClearPastedClick
  \/ ChooseFile
  \/ RemoveFileClick

Next ==
  /\ \/ UserEdit
     \/ SubmitClick
     \/ Settle
     \/ UploadProgress
  /\ UNCHANGED <<splitVars, resultsVars>>

Spec == Init /\ [][Next]_vars

\* The same form with the submit handler also reachable without the button.
NextHandlers ==
  /\ \/ UserEdit
     \/ SubmitClick
     \/ SubmitDispatched
     \/ Settle
     \/ UploadProgress
  /\ UNCHANGED <<splitVars, resultsVars>>

SpecHandlers == Init /\ [][NextHandlers]_vars

\* --------------------------------------------- the splitter on its own
Alphabet == {"a", "b", SP, LF}

\* "Q1 line A\nline B\n\nQ2"
ExampleText ==
  <<"Q", "1", SP, "l", "i", "n", "e", SP, "A", LF,
    "l", "i", "n", "e", SP, "B", LF, LF, "Q", "2">>

\* "Q1 line A line B"
ExampleFirst ==
  <<"Q", "1", SP, "l", "i", "n", "e", SP, "A", SP,
    "l", "i", "n", "e", SP, "B">>

\* "Q2"
ExampleSecond == <<"Q", "2">>

TextInputs == SeqsUpTo(Alphabet, MaxTextLen) \cup {ExampleText}

InitSplit ==
  /\ InitForm
  /\ rev = 3
  /\ text \in TextInputs
  /\ questionList = Null
  /\ InitResults

\* the pasted branch of handleSubmit (revision 3) up to the list it sends
SplitPasted ==
  /\ questionList = Null
  /\ Trim(text) # EmptyStr
  /\ questionList' = Some(ParsePasted(text))
  /\ UNCHANGED <<text, formVars, resultsVars>>

NextSplit == SplitPasted

SpecSplit == InitSplit /\ [][NextSplit]_vars

\* =========================================================== QuestionResults
\* Five revisions of the component: 1 = part_003, 2 = part_004,
\* 3 = QuestionResults.tsx:1-207, 4 = part_005, 5 = QuestionResults.tsx:208-603.
ResultsRevs == 1..5

\* ------------------------------------------------------- values of a result
\* similarityScore: a number, null, or the field is missing. A number is kept
\* in units of 1/100000, so Num(87340) is 0.8734.
Undefined == [t |-> "undefined", v |-> 0]
JsNull == [t |-> "null", v |-> 0]
Num(n) == [t |-> "number", v |-> n]

\* ------------------------------------------------------------ number to text
Digit(d) == <<"0", "1", "2", "3", "4", "5", "6", "7", "8", "9">>[d + 1]

\* String(n) for a natural number
RECURSIVE NatToStr(_)
NatToStr(n) ==
  IF n < 10 THEN <<Digit(n)>> ELSE NatToStr(n \div 10) \o <<Digit(n % 10)>>

\* The product score * 100 is n in units of 1/1000; toFixed(2) rounds it to the
\* nearest hundredth. When the decimal value lies half way, the double that
\* holds the product is slightly below or above it, and `up` says which.
Hundredths(n, up) ==
  LET x == n
  IN IF x % 10 < 5 THEN x \div 10
     ELSE IF x % 10 > 5 THEN x \div 10 + 1
     ELSE IF up THEN x \div 10 + 1 ELSE x \div 10

\* Variant: one digit after the point.
toFixedOneDigit(h) ==
  NatToStr(h \div 100) \o <<".", Digit((h % 100) \div 10)>>

\* toFixed(2) of h hundredths
toFixed(h) ==
  NatToStr(h \div 100) \o <<".", Digit((h % 100) \div 10), Digit(h % 10)>>

\* `${(result.similarityScore * 100).toFixed(2)}%` evaluated without a test of
\* the score: null * 100 is 0 and undefined * 100 is NaN
Percent(score, up) ==
  CASE score.t = "number" -> toFixed(Hundredths(score.v, up)) \o <<"%">>
    [] score.t = "null" -> toFixed(0) \o <<"%">>
    [] score.t = "undefined" -> <<"N", "a", "N", "%">>

\* ------------------------------------------------------------------ results
\* One QuestionResult as the server sends it. mostSimilarQuestion is Null for
\* null or a missing field; similarityExplanation, semanticAnalysis and rowData
\* are Null when the field is missing.
Result(q, dup, msq, score, expl, sem, rowData) ==
  [question |-> q, isDuplicate |-> dup, mostSimilarQuestion |-> msq,
   similarityScore |-> score, similarityExplanation |-> expl,
   semanticAnalysis |-> sem, rowData |-> rowData]

\* rowData: the row of the uploaded spreadsheet, here with one column.
Column(name, value) == [name |-> name, value |-> value]

\* One item of similarityExplanation: a string, or an object whose fields may
\* all be missing.
StringItem(s) ==
  [isString |-> TRUE, type |-> Null, words |-> Null, count |-> Null,
   text |-> Some(s)]
ObjectItem(type, words, count, txt) ==
  [isString |-> FALSE, type |-> type, words |-> words, count |-> count,
   text |-> txt]

\* results.map((result, index) => ({...result, originalIndex: index + 1}))
indexedResults(rs) ==
  [i \in 1..Len(rs) |-> [result |-> rs[i], originalIndex |-> i]]

\* results.filter((result) => !result.isDuplicate), each element with its
\* position in results
uniqueQuestions(rs) ==
  SelectSeq(indexedResults(rs), LAMBDA r : ~r.result.isDuplicate)

\* Variant: the duplicate list keeps every result.
similarQuestionsUnfiltered(rs) == indexedResults(rs)

\* results.filter((result) => result.isDuplicate)
similarQuestions(rs) ==
  SelectSeq(indexedResults(rs), LAMBDA r : r.result.isDuplicate)

\* Variant: one element more than asked for.
SliceOneMore(s, n) == SubSeq(s, 1, IF Len(s) < n + 1 THEN Len(s) ELSE n + 1)

\* Array.prototype.slice(0, n)
Slice(s, n) == SubSeq(s, 1, IF Len(s) < n THEN Len(s) ELSE n)

\* Variant: the last matching non-duplicate is taken instead of the first.
duplicateInfoLast(rs, i) ==
  LET r == rs[i]
      hits == {j \in 1..Len(rs) :
                 /\ ~rs[j].isDuplicate
                 /\ r.mostSimilarQuestion = Some(rs[j].question)}
  IN IF r.isDuplicate /\ r.mostSimilarQuestion \notin {Null, Some("")}
        /\ hits # {}
     THEN Some([index |-> CHOOSE j \in hits : \A k \in hits : j >= k,
                question |-> r.mostSimilarQuestion[1]])
     ELSE Null

\* duplicateMap.get(originalIndex): the first non-duplicate result whose
\* question is the duplicate's mostSimilarQuestion, when that is a non-empty
\* string
duplicateInfo(rs, i) ==
  LET r == rs[i]
      hits == {j \in 1..Len(rs) :
                 /\ ~rs[j].isDuplicate
                 /\ r.mostSimilarQuestion = Some(rs[j].question)}
  IN IF r.isDuplicate /\ r.mostSimilarQuestion \notin {Null, Some("")}
        /\ hits # {}
     THEN Some([index |-> CHOOSE j \in hits : \A k \in hits : j <= k,
                question |-> r.mostSimilarQuestion[1]])
     ELSE Null

\* --------------------------------------------------- rendering explanations
\* What one rendered explanation item shows: a label, the words or text that
\* follow it, and for common words the count (Some(0) is the bare 0 that
\* `item.count && ...` leaves in the markup).
Shown(label, body, count) == [label |-> label, body |-> body, count |-> count]

\* the callback of explanation.map in renderSimilarityExplanation: Null is
\* the `return null` of the switch, which renders nothing
renderItem(item) ==
  IF item.isString
  THEN Some(Shown("Reason:", <<Val(item.text)>>, Null))
  ELSE CASE item.type = Some("common_words") ->
              Some(Shown("Common words:",
                         IF item.words = Null THEN <<>> ELSE Val(item.words),
                         IF item.count = Null THEN Null
                         ELSE IF Val(item.count) = 0 THEN Some(0)
                         ELSE IF Val(item.count) > 3 THEN item.count
                         ELSE Null))
         [] item.type = Some("similar_start") ->
              Some(Shown("Same beginning:",
                         IF item.text = Null THEN <<>> ELSE <<Val(item.text)>>,
                         Null))
         [] item.type = Some("similar_end") ->
              Some(Shown("Same ending:",
                         IF item.text = Null THEN <<>> ELSE <<Val(item.text)>>,
                         Null))
         [] item.type = Some("same_question_structure") ->
              Some(Shown("Both questions follow the same question structure",
                         <<>>, Null))
         [] OTHER -> Null

\* renderSimilarityExplanation(explanation = [])
renderSimilarityExplanation(explanation) ==
  LET items == IF explanation = Null THEN <<>> ELSE Val(explanation)
  IN [k \in 1..Len(items) |-> renderItem(items[k])]

\* the analysis cell of one table row
Analysis(items, semantic, fallback) ==
  [items |-> items, semantic |-> semantic, fallback |-> fallback]
NoAnalysis == Analysis(<<>>, Null, Null)

TruthyText(o) == o # Null /\ o # Some("")

analysisCell(r) ==
  LET hasItems == /\ r.similarityExplanation # Null
                  /\ Len(Val(r.similarityExplanation)) > 0
  IN Analysis(
       IF hasItems THEN renderSimilarityExplanation(r.similarityExplanation)
       ELSE <<>>,
       IF TruthyText(r.semanticAnalysis) THEN r.semanticAnalysis ELSE Null,
       IF ~hasItems /\ ~TruthyText(r.semanticAnalysis)
       THEN Some(IF r.isDuplicate THEN "Similar to another question."
                 ELSE "No significant similarity detected.")
       ELSE Null)

\* ------------------------------------------------------------- the markup
PreviewShort == 3
PreviewLong == 5

\* One displayed line or row about results[index]: the text shown for the
\* most similar question (ref is the question number shown with it, 0 for
\* none), the text shown for the score, and the analysis cell. Null where the
\* markup has nothing.
Item(index, similar, score, analysis) ==
  [index |-> index, similar |-> similar, score |-> score,
   analysis |-> analysis]
Similar(ref, txt) == Some([ref |-> ref, text |-> txt])

\* One row of the unique-question list: its displayed number (Null without a
\* number column) and the result it shows.
Row(num, index) == [num |-> num, index |-> index]

\* What a render displays: the "No results to display." line, the count in
\* the heading of the unique list and of the duplicate notification, the
\* lines or rows about results, the count of the "+ K more" line and the rows
\* of the unique list.
View(empty, uniqueCount, duplicateCount, items, more, uniqueRows) ==
  [empty |-> empty, uniqueCount |-> uniqueCount,
   duplicateCount |-> duplicateCount, items |-> items, more |-> more,
   uniqueRows |-> uniqueRows]

\* result.mostSimilarQuestion ?? 'another question'
orAnotherQuestion(msq) == IF msq = Null THEN "another question" ELSE Val(msq)

\* revision 1: every result, the similarity line only for a truthy
\* mostSimilarQuestion, the score formatted without a test
render1(rs, up) ==
  View(rs = <<>>, Null, Null,
       [i \in 1..Len(rs) |->
          IF TruthyText(rs[i].mostSimilarQuestion)
          THEN Item(i, Similar(0, Val(rs[i].mostSimilarQuestion)),
                    Some(Percent(rs[i].similarityScore,
                                 up[rs[i].similarityScore.v])),
                    NoAnalysis)
          ELSE Item(i, Null, Null, NoAnalysis)],
       Null, <<>>)

\* one line of the duplicate notification of revisions 2 and 3
duplicateLine(r, up) ==
  Item(r.originalIndex,
       Similar(0, orAnotherQuestion(r.result.mostSimilarQuestion)),
       IF r.result.similarityScore # Undefined
       THEN Some(Percent(r.result.similarityScore,
                         up[r.result.similarityScore.v]))
       ELSE Some(<<"N", "/", "A">>),
       NoAnalysis)

\* revision 2: every duplicate is listed; the unique list has no numbers
render2(rs, up) ==
  LET sim == similarQuestions(rs)
      unq == uniqueQuestions(rs)
  IN IF rs = <<>> THEN View(TRUE, Null, Null, <<>>, Null, <<>>)
     ELSE View(FALSE, Some(Len(unq)), Null,
               [k \in 1..Len(sim) |-> duplicateLine(sim[k], up)],
               Null,
               [k \in 1..Len(unq) |-> Row(Null, unq[k].originalIndex)])

\* revision 3: the first three duplicates, then "+ K more"
render3(rs, up) ==
  LET sim == similarQuestions(rs)
      unq == uniqueQuestions(rs)
      shownSim == Slice(sim, PreviewShort)
  IN View(FALSE, Some(Len(unq)),
          IF Len(sim) > 0 THEN Some(Len(sim)) ELSE Null,
          [k \in 1..Len(shownSim) |-> duplicateLine(shownSim[k], up)],
          IF Len(sim) > PreviewShort THEN Some(Len(sim) - PreviewShort)
          ELSE Null,
          [k \in 1..Len(unq) |-> Row(Some(k), unq[k].originalIndex)])

\* the most similar question as revisions 4 and 5 show it for a result with
\* an entry in duplicateMap
numbered(info) == Similar(Val(info).index, Val(info).question)

\* revision 4: the first five duplicates with question numbers, the score
\* left out when it is null or missing
render4(rs, up) ==
  LET sim == similarQuestions(rs)
      unq == uniqueQuestions(rs)
      shownSim == Slice(sim, PreviewLong)
  IN View(FALSE, Some(Len(unq)),
          IF Len(sim) > 0 THEN Some(Len(sim)) ELSE Null,
          [k \in 1..Len(shownSim) |->
             LET r == shownSim[k]
                 info == duplicateInfo(rs, r.originalIndex)
             IN Item(r.originalIndex,
                     IF info # Null THEN numbered(info)
                     ELSE Similar(0,
                            orAnotherQuestion(r.result.mostSimilarQuestion)),
                     IF r.result.similarityScore \notin {Undefined, JsNull}
                     THEN Some(Percent(r.result.similarityScore,
                                       up[r.result.similarityScore.v]))
                     ELSE Null,
                     NoAnalysis)],
          IF Len(sim) > PreviewLong THEN Some(Len(sim) - PreviewLong)
          ELSE Null,
          [k \in 1..Len(unq) |->
             Row(Some(unq[k].originalIndex), unq[k].originalIndex)])

\* revision 5: one table row for every result
render5(rs, up) ==
  View(rs = <<>>, Null, Null,
       [i \in 1..Len(rs) |->
          LET r == rs[i]
              info == duplicateInfo(rs, i)
          IN Item(i,
                  IF info # Null THEN numbered(info)
                  ELSE IF TruthyText(r.mostSimilarQuestion)
                  THEN Similar(0, Val(r.mostSimilarQuestion))
                  ELSE Similar(0, "None"),
                  IF r.similarityScore \notin {Undefined, JsNull}
                  THEN Some(Percent(r.similarityScore,
                                    up[r.similarityScore.v]))
                  ELSE Some(<<"N", "/", "A">>),
                  analysisCell(r))],
       Null, <<>>)

render(rs, up) ==
  CASE resultsRev = 1 -> render1(rs, up)
    [] resultsRev = 2 -> render2(rs, up)
    [] resultsRev = 3 -> render3(rs, up)
    [] resultsRev = 4 -> render4(rs, up)
    [] resultsRev = 5 -> render5(rs, up)

\* ------------------------------------------------------------ the stats panel
\* the stats prop: totalQuestions, duplicatesFound, uniqueQuestions? and
\* processingTime?
Stats(total, duplicates, unique, time) ==
  [totalQuestions |-> total, duplicatesFound |-> duplicates,
   uniqueQuestions |-> unique, processingTime |-> time]

\* stats.uniqueQuestions || stats.totalQuestions - stats.duplicatesFound
uniqueOrDifference(st) ==
  IF IsSome(st.uniqueQuestions) /\ Val(st.uniqueQuestions) # 0
  THEN Val(st.uniqueQuestions)
  ELSE st.totalQuestions - st.duplicatesFound

\* {stats && (...)}: the three counts as React writes them, and the time line
\* for a truthy processingTime; revisions 1 and 2 have no stats prop
renderStats(st) ==
  IF resultsRev \in {1, 2} \/ st = Null THEN Null
  ELSE LET s == Val(st)
       IN Some([total |-> NatToStr(s.totalQuestions),
                unique |-> NatToStr(uniqueOrDifference(s)),
                duplicates |-> NatToStr(s.duplicatesFound),
                time |-> IF TruthyText(s.processingTime)
                         THEN s.processingTime ELSE Null])

\* ------------------------------------------------------ the render on its own
MaxShown == 7
MaxExplLen == 2

\* scores in units of 1/100000: 0.8734, values that round down and up, and
\* values half way between two hundredths of a percent
ScoreUnits == {0, 87340, 87344, 87345, 87346, 99995, 100000}
Scores == {Undefined, JsNull} \cup {Num(v) : v \in ScoreUnits}

\* which way each half-way product is rounded
Dirs ==
  {d \in [ScoreUnits -> BOOLEAN] : \A v \in ScoreUnits : d[v] => v % 10 = 5}

MostSimilarValues == {Null, Some(""), Some("What is TLA+?")}

ExplItems ==
  {StringItem("Both ask for a definition"),
   ObjectItem(Some("common_words"), Some(<<"what", "is">>), Some(2), Null),
   ObjectItem(Some("common_words"), Some(<<"what", "is", "a", "spec">>),
              Some(4), Null),
   ObjectItem(Some("similar_start"), Null, Null, Some("What is")),
   ObjectItem(Some("similar_end"), Null, Null, Some("TLA+?")),
   ObjectItem(Some("same_question_structure"), Null, Null, Null),
   ObjectItem(Some("semantic"), Null, Null, Some("Same meaning")),
   ObjectItem(Null, Null, Null, Some("Same topic"))}

Explanations == {Null} \cup {Some(e) : e \in SeqsUpTo(ExplItems, MaxExplLen)}

\* single results that vary the fields the markup tests
FieldResults ==
  {Result("What is TLA?", dup, msq, score, Null, Null, Null) :
     dup \in BOOLEAN, msq \in MostSimilarValues, score \in Scores}

\* single results that vary the explanation
ExplainedResults ==
  {Result("What is TLA?", dup, Some("What is TLA+?"), Num(87340), expl, sem,
          Null) :
     dup \in BOOLEAN, expl \in Explanations,
     sem \in {Null, Some("Both ask what TLA+ is")}}

\* results for longer lists: a unique question, a duplicate of it and a
\* duplicate of a question that is not in the list
PlainResults ==
  {Result("What is TLA+?", FALSE, Null, JsNull, Null, Null, Null),
   Result("What's TLA+?", TRUE, Some("What is TLA+?"), Num(87340), Null, Null,
          Null),
   Result("What is PlusCal?", TRUE, Some("What is Pluscal"), Num(99995),
          Null, Null, Null)}

RenderInputs ==
  {<<r>> : r \in FieldResults \cup ExplainedResults}
    \cup SeqsUpTo(PlainResults, MaxShown)

InitRender ==
  /\ InitForm
  /\ rev = 3
  /\ text = EmptyStr
  /\ questionList = Null
  /\ resultsRev \in ResultsRevs
  /\ resultsProp \in RenderInputs
  /\ cleanedFileName = Null
  /\ stats = Null
  /\ InitResultsState

\* Variant: the component sorts the list it was given in place, unique
\* questions first.
RenderSortingInPlace ==
  /\ \E up \in Dirs : view' = Some(render(resultsProp, up))
  /\ statsPanel' = renderStats(stats)
  /\ resultsProp' =
       LET sorted == uniqueQuestions(resultsProp)
                       \o similarQuestions(resultsProp)
       IN [k \in 1..Len(sorted) |-> sorted[k].result]
  /\ last' = Ev("render")
  /\ UNCHANGED <<rev, questions, pastedQuestions, file, error, isSubmitting,
                 uploadProgress, results, inflight, splitVars, resultsRev,
                 stats, actionVars>>

\* the component function runs and React commits what it returned
Render ==
  /\ \E up \in Dirs : view' = Some(render(resultsProp, up))
  /\ statsPanel' = renderStats(stats)
  /\ last' = Ev("render")
  /\ UNCHANGED <<rev, questions, pastedQuestions, file, error, isSubmitting,
                 uploadProgress, results, inflight, splitVars, resultsRev,
                 resultsProp, stats, actionVars>>

NextRender == Render

SpecRender == InitRender /\ [][NextRender]_vars

\* ------------------------------------------------- the stats panel on its own
MaxStat == 2

StatsInputs ==
  {Null} \cup
  {Some(Stats(t, d, u, pt)) :
     t \in 0..MaxStat, d \in 0..MaxStat,
     u \in {Null} \cup {Some(n) : n \in 0..MaxStat},
     pt \in {Null, Some(""), Some("1.2s")}}

InitStats ==
  /\ InitForm
  /\ rev = 3
  /\ text = EmptyStr
  /\ questionList = Null
  /\ resultsRev \in ResultsRevs
  /\ resultsProp = <<>>
  /\ cleanedFileName = Null
  /\ stats \in {st \in StatsInputs :
                  st # Null =>
                    Val(st).duplicatesFound <= Val(st).totalQuestions}
  /\ InitResultsState

SpecStats == InitStats /\ [][NextRender]_vars

\* ------------------------------------------- export, download and reset
MaxPending == 2
MaxTimers == 2

formState ==
  <<rev, questions, pastedQuestions, file, error, isSubmitting,
    uploadProgress, results, inflight>>
propVars ==
  <<resultsRev, resultsProp, cleanedFileName, view, stats, statsPanel>>

\* one object of `data` in handleDownload: {'#': index + 1, 'Question':
\* q.question, ...rowData}; a rowData column named Question replaces the
\* question
ExportRow(k, r) ==
  LET rd == r.rowData
      replaces == rd # Null /\ Val(rd).name = "Question"
  IN [num |-> k,
      question |-> IF replaces THEN Val(rd).value ELSE r.question,
      extra |-> IF rd # Null /\ ~replaces THEN rd ELSE Null]

\* Variant: the sheet is built from every result.
ExportDataOfAll(rs) == [k \in 1..Len(rs) |-> ExportRow(k, rs[k])]

\* uniqueQuestions.map((q, index) => ...)
ExportData(rs) ==
  LET unq == uniqueQuestions(rs)
  IN [k \in 1..Len(unq) |-> ExportRow(k, unq[k].result)]

\* handleDownload (revision 2); `written` is whether the XLSX library wrote
\* the file or threw
handleDownload(written) ==
  /\ IF uniqueQuestions(resultsProp) = <<>>
     THEN /\ downloadError' = Some("No unique questions to download.")
          /\ last' = Ev("export-empty")
          /\ UNCHANGED exported
     ELSE IF written
     THEN /\ downloadError' = Null
          /\ exported' = Some(ExportData(resultsProp))
          /\ last' = Ev("export")
     ELSE /\ downloadError' =
               Some("Failed to generate Excel file. Please try again.")
          /\ last' = Ev("export-failed")
          /\ UNCHANGED exported
  /\ UNCHANGED <<formState, splitVars, propVars, isDownloading, resetStatus,
                 downloads, resets, timers>>

\* handleDownloadCleanedFile up to its await
handleDownloadCleanedFile ==
  /\ IF cleanedFileName \in {Null, Some("")}
     THEN /\ downloadError' = Some("No cleaned file available for download.")
          /\ isDownloading' = FALSE
          /\ last' = Ev("download-none")
          /\ UNCHANGED downloads
     ELSE /\ downloadError' = IF resultsRev = 2 THEN downloadError ELSE Null
          /\ isDownloading' = (resultsRev # 2)
          /\ downloads' = downloads + 1
          /\ last' = Ev("download")
  /\ UNCHANGED <<formState, splitVars, propVars, resetStatus, resets, timers,
                 exported>>

\* how a GET /download settles: the blob arrives or the request fails
DownloadSettlements ==
  {[ok |-> TRUE, message |-> ""]}
    \cup {[ok |-> FALSE, message |-> msg] : msg \in ErrMessages}

\* the continuation of handleDownloadCleanedFile
downloadSettled(resp) ==
  /\ downloads' = downloads - 1
  /\ downloadError' =
       IF resp.ok THEN downloadError
       ELSE IF resultsRev = 2
       THEN Some("Failed to download cleaned file. Please try again.")
       ELSE Some(resp.message)
  /\ isDownloading' = FALSE
  /\ last' = Ev(IF resp.ok THEN "download-resolved" ELSE "download-rejected")
  /\ UNCHANGED <<formState, splitVars, propVars, resetStatus, resets, timers,
                 exported>>

Status(loading, err, success) ==
  [loading |-> loading, error |-> err, success |-> success]

\* Variant: the click keeps the rest of the previous status,
\* setResetStatus(prev => ({...prev, loading: true})).
handleResetQuestionsKeepingStatus ==
  /\ resetStatus' = [resetStatus EXCEPT !.loading = TRUE]
  /\ resets' = resets + 1
  /\ last' = Ev("reset")
  /\ UNCHANGED <<formState, splitVars, propVars, downloadError, isDownloading,
                 downloads, timers, exported>>

\* handleResetQuestions up to its await
handleResetQuestions ==
  /\ resetStatus' = Status(TRUE, Null, FALSE)
  /\ resets' = resets + 1
  /\ last' = Ev("reset")
  /\ UNCHANGED <<formState, splitVars, propVars, downloadError, isDownloading,
                 downloads, timers, exported>>

\* how a POST /reset-questions settles
ResetSettlements ==
  {[ok |-> TRUE, success |-> s, error |-> e, message |-> ""] :
     s \in BOOLEAN, e \in ErrorFields}
    \cup {[ok |-> FALSE, success |-> FALSE, error |-> Null, message |-> msg] :
            msg \in ErrMessages}

\* the continuation of handleResetQuestions
resetSettled(resp) ==
  /\ resets' = resets - 1
  /\ IF resp.ok /\ resp.success
     THEN /\ resetStatus' = Status(FALSE, Null, TRUE)
          /\ timers' = timers + 1
          /\ last' = Ev("reset-resolved")
     ELSE /\ resetStatus' =
               Status(FALSE,
                      Some(IF resp.ok
                           THEN OrElse(resp.error, "",
                                       "Failed to reset questions")
                           ELSE resp.message),
                      FALSE)
          /\ last' = Ev(IF resp.ok THEN "reset-refused" ELSE "reset-rejected")
          /\ UNCHANGED timers
  /\ UNCHANGED <<formState, splitVars, propVars, downloadError, isDownloading,
                 downloads, exported>>

\* the callback given to setTimeout(..., 3000)
hideSuccess ==
  /\ resetStatus' = [resetStatus EXCEPT !.success = FALSE]
  /\ timers' = timers - 1
  /\ last' = Ev("timer")
  /\ UNCHANGED <<formState, splitVars, propVars, downloadError, isDownloading,
                 downloads, resets, exported>>

\* ---------------------------------------------------- what the markup offers
\* the "Download Results" button (revision 2)
ExportOffered ==
  /\ resultsRev = 2
  /\ resultsProp # <<>>
  /\ Len(uniqueQuestions(resultsProp)) > 0

\* the "Download Cleaned File" button
DownloadOffered ==
  /\ cleanedFileName \notin {Null, Some("")}
  /\ CASE resultsRev = 1 -> FALSE
       [] resultsRev = 2 -> ExportOffered
       [] OTHER -> TRUE

\* disabled={isDownloading}; revision 2 has no such attribute
DownloadDisabled == resultsRev \in {3, 4, 5} /\ isDownloading

\* the "Reset Questions DB" button and its disabled attribute
ResetOffered == resultsRev \in {4, 5}
ResetDisabled == resetStatus.loading

\* ------------------------------------------------------------------- events
ExportClick ==
  /\ ExportOffered
  /\ \E written \in BOOLEAN : handleDownload(written)

DownloadClick ==
  /\ DownloadOffered
  /\ ~DownloadDisabled
  /\ downloads < MaxPending
  /\ handleDownloadCleanedFile

DownloadSettle ==
  /\ downloads > 0
  /\ \E resp \in DownloadSettlements : downloadSettled(resp)

ResetClick ==
  /\ ResetOffered
  /\ ~ResetDisabled
  /\ resets < MaxPending
  /\ resets + timers < MaxTimers
  /\ handleResetQuestions

ResetSettle ==
  /\ resets > 0
  /\ \E resp \in ResetSettlements : resetSettled(resp)

TimerFires ==
  /\ timers > 0
  /\ hideSuccess

\* the handlers run whatever the markup offers
ExportDispatched ==
  /\ resultsRev = 2
  /\ \E written \in BOOLEAN : handleDownload(written)

DownloadDispatched ==
  /\ resultsRev \in 2..5
  /\ downloads < MaxPending
  /\ handleDownloadCleanedFile

\* ------------------------------------------------------------------ inputs
MaxExported == 3

ExportResults ==
  {Result("What is TLA+?", FALSE, Null, JsNull, Null, Null, Null),
   Result("What is TLC?", FALSE, Null, JsNull, Null, Null,
          Some(Column("Topic", "tools"))),
   Result("What is SANY?", FALSE, Null, JsNull, Null, Null,
          Some(Column("Question", "What is the parser?"))),
   Result("What's TLA+?", TRUE, Some("What is TLA+?"), Num(87340), Null, Null,
          Null)}

ActionInputs ==
  IF resultsRev = 2 THEN SeqsUpTo(ExportResults, MaxExported)
  ELSE SeqsUpTo(PlainResults, 1)

InitActions ==
  /\ InitForm
  /\ rev = 3
  /\ text = EmptyStr
  /\ questionList = Null
  /\ resultsRev \in 2..5
  /\ resultsProp \in ActionInputs
  /\ cleanedFileName \in {Null, Some("cleaned.xlsx")}
  /\ stats = Null
  /\ InitResultsState

NextActions ==
  \/ ExportClick
  \/ DownloadClick
  \/ DownloadSettle
  \/ ResetClick
  \/ ResetSettle
  \/ TimerFires

SpecActions == InitActions /\ [][NextActions]_vars

NextActionHandlers ==
  \/ NextActions
  \/ ExportDispatched
  \/ DownloadDispatched

SpecActionHandlers == InitActions /\ [][NextActionHandlers]_vars

\* the mounted component: it renders, and its buttons, requests and timer run
NextComponent ==
  \/ Render
  \/ NextActions

SpecComponent == InitActions /\ [][NextComponent]_vars

\* =================================================================== claims
\* A submission that the form treats as failed: a rejected request, or a
\* file-upload response whose body reports success = false with an error.
FailedSubmission(l) ==
  \/ l.ev = "rejected"
  \/ /\ l.ev = "resolved"
     /\ l.req.url \in {Upload, CheckFile}
     /\ ~l.resp.success
     /\ IsSome(l.resp.error)

\* A submission that succeeded: the request resolved and, for a file upload,
\* the body reports success.
Successful(l) ==
  /\ l.ev = "resolved"
  /\ l.req.url \in {Upload, CheckFile} => l.resp.success

\* C1: in the revisions with several input modes at most one of {a manual
\* field non-blank, pasted text non-blank, a file selected} holds, and
\* whenever one holds the editing controls of the other modes are disabled.
C1_ExclusiveModes ==
  rev \in {2, 3} =>
    LET manual == ~AllBlank
        pasted == NonBlank(pastedQuestions)
        hasFile == file # Null
    IN /\ ~(manual /\ pasted)
       /\ ~(manual /\ hasFile)
       /\ ~(pasted /\ hasFile)
       /\ manual => isFileUploadDisabled /\ (rev = 3 => isPastedInputDisabled)
       /\ hasFile => isManualInputDisabled /\ (rev = 3 => isPastedInputDisabled)
       /\ pasted => isManualInputDisabled /\ isFileUploadDisabled

\* C2: at most one similarity-check request is in flight, and while one is in
\* flight isSubmitting is true and the submit control is disabled.
C2_SingleFlight ==
  /\ Len(inflight) <= 1
  /\ inflight # <<>> => isSubmitting /\ SubmitDisabled

C2_Witness ==
  /\ Len(inflight) = 1
  /\ isSubmitting
  /\ last.ev = "submit"

\* C3: a failed submission leaves the manual fields, the pasted text and the
\* selected file as they were.
C3_InputKeptOnFailure ==
  [][FailedSubmission(last') =>
       /\ questions' = questions
       /\ pastedQuestions' = pastedQuestions
       /\ file' = file]_vars

\* C4 as stated: after a failed /check-batch call the message is the server's
\* `error` field verbatim whenever the field is present, otherwise a non-empty
\* fallback; it is never null and the typed questions stay in the fields.
C4_ErrorFieldVerbatim ==
  [][(last'.ev = "rejected" /\ last'.req.url = CheckBatch) =>
       /\ error' # Null
       /\ Val(error') # ""
       /\ IsSome(last'.resp.error) => error' = last'.resp.error
       /\ questions' = questions]_vars

\* C4 amended: after a failed /check-batch call the message is the server's
\* `error` field verbatim whenever the field is present and non-empty,
\* otherwise a non-empty fallback; it is never null and the typed questions
\* stay in the fields.
C4_NonEmptyErrorFieldVerbatim ==
  [][(last'.ev = "rejected" /\ last'.req.url = CheckBatch) =>
       /\ error' # Null
       /\ Val(error') # ""
       /\ (IsSome(last'.resp.error) /\ Val(last'.resp.error) # "") =>
            error' = last'.resp.error
       /\ questions' = questions]_vars

C4_Witness ==
  /\ last.ev = "rejected"
  /\ last.req.url = CheckBatch
  /\ last.resp.error = Some("Server says no")
  /\ error = Some("Server says no")
  /\ ~AllBlank

\* C5: whenever the submit handler runs with every manual field blank, the
\* pasted text blank and no file selected, no request is issued and a
\* validation message is shown.
C5_EmptySubmitRejected ==
  [][(/\ last'.ev \in {"submit", "invalid"}
      /\ AllBlank
      /\ ~NonBlank(pastedQuestions)
      /\ file = Null) =>
       /\ inflight' = inflight
       /\ error' # Null]_vars

\* C6: the list sent for a pasted text consists of the text's units, in
\* order, where units are separated by white-space runs holding two or more
\* line breaks, each unit is trimmed and has its line breaks replaced by a
\* space; every question is non-empty, free of line feeds and of leading or
\* trailing white space, and the example text yields its two questions.
NonWs(s) == {i \in 1..Len(s) : ~IsWs(s[i])}

Adjacent(s, i, j) ==
  /\ i \in NonWs(s)
  /\ j \in NonWs(s)
  /\ i < j
  /\ \A k \in (i + 1)..(j - 1) : IsWs(s[k])

Separated(s, i, j) ==
  /\ Adjacent(s, i, j)
  /\ Cardinality({k \in (i + 1)..(j - 1) : s[k] = LF}) >= 2

UnitStarts(s) ==
  {i \in NonWs(s) : \A h \in NonWs(s) : Adjacent(s, h, i) => Separated(s, h, i)}

UnitEnd(s, a) ==
  SetMax({b \in NonWs(s) :
            /\ a <= b
            /\ \A i \in a..b, j \in a..b : ~Separated(s, i, j)})

NthSmallest(S, n) == CHOOSE x \in S : Cardinality({y \in S : y < x}) = n - 1

ExpectedUnits(s) ==
  [n \in 1..Cardinality(UnitStarts(s)) |->
     LET a == NthSmallest(UnitStarts(s), n)
         u == SubSeq(s, a, UnitEnd(s, a))
     IN [k \in 1..Len(u) |-> IF u[k] = LF THEN SP ELSE u[k]]]

C6_PastedSplit ==
  questionList # Null =>
    LET sent == Val(questionList)
    IN /\ sent = ExpectedUnits(text)
       /\ \A n \in DOMAIN sent :
            /\ sent[n] # EmptyStr
            /\ \A k \in DOMAIN sent[n] : sent[n][k] # LF
            /\ ~IsWs(sent[n][1])
            /\ ~IsWs(sent[n][Len(sent[n])])
       /\ text = ExampleText => sent = <<ExampleFirst, ExampleSecond>>

C6_Witness ==
  /\ text = ExampleText
  /\ questionList = Some(<<ExampleFirst, ExampleSecond>>)

\* C7: selecting a file whose declared type is outside the revision's
\* allow-list shows the type-specific message, leaves no file selected and
\* sends nothing; selecting a file of an allowed type makes it the selected
\* file and clears the message.
C7_FileSelection ==
  [][last'.ev \in {"fileAccepted", "fileRejected"} =>
       LET selected == Val(last'.req.file)
           allowed == IF rev = 2 THEN {TXT, CSV} ELSE {XLS, XLSX}
           message == IF rev = 2 THEN "Please upload a .txt or .csv file."
                      ELSE "Please upload an Excel file (.xls, .xlsx)."
       IN /\ inflight' = inflight
          /\ IF selected \in allowed
             THEN file' = Some(selected) /\ error' = Null
             ELSE file' = Null /\ error' = Some(message)]_vars

C7_Witness ==
  /\ rev = 3
  /\ last.ev = "fileRejected"
  /\ last.req.file = Some(TXT)
  /\ file = Null
  /\ error = Some("Please upload an Excel file (.xls, .xlsx).")
  /\ inflight = <<>>

\* C8: the number of manual fields stays between 1 and 5, and a successful
\* submission leaves exactly one empty field.
C8_FieldCount ==
  /\ Len(questions) >= 1
  /\ Len(questions) <= 5
  /\ Successful(last) => questions = <<EmptyStr>>

C8_Witness ==
  /\ Len(questions) = 5
  /\ ~AddOffered
  /\ ~isSubmitting
  /\ last.ev = "add"

\* C9: after a successful submission the results held by App are the results
\* of the response, and the input state is back to one empty field, empty
\* pasted text and no file.
C9_SuccessReplacesAndResets ==
  Successful(last) =>
    /\ results = last.resp.results
    /\ questions = <<EmptyStr>>
    /\ pastedQuestions = EmptyStr
    /\ file = Null

C9_Witness ==
  /\ rev = 3
  /\ Successful(last)
  /\ last.req.questions = <<<<"a">>, <<"b">>>>
  /\ results = Some(<<"r1">>)
  /\ questions = <<EmptyStr>>
  /\ pastedQuestions = EmptyStr
  /\ file = Null

\* C10: the results held by App change only when a submission succeeds, and
\* then they become the response's results.
C10_ResultsOnlyOnSuccess ==
  [][results' # results =>
       /\ Successful(last')
       /\ results' = last'.resp.results]_vars

\* The handler-level form under the scheduling assumption the claim makes: a
\* request that was sent is eventually resolved or rejected by the browser.
SpecHandlersLive ==
  /\ Init
  /\ [][NextHandlers]_vars
  /\ WF_vars(Settle /\ UNCHANGED <<splitVars, resultsVars>>)

\* C11: a submission that fails local validation, or whose request resolves or
\* rejects, leaves isSubmitting false at the end of that step, and a form that
\* is submitting is eventually not submitting again: no path leaves the form
\* stuck in the submitting state.
C11_ReturnsToIdle ==
  /\ [](last.ev \in {"invalid", "resolved", "rejected"} => ~isSubmitting)
  /\ isSubmitting ~> ~isSubmitting

C11_Witness ==
  /\ last.ev = "rejected"
  /\ ~isSubmitting
  /\ inflight = <<>>
  /\ ~SubmitDisabled

\* C12: requests are sent only by a submit trigger and nothing is retried: a
\* step of the submit handler that sends adds exactly one request to those in
\* flight, the settlement of a request (failed or not) removes that request
\* and sends nothing, and no other step changes the requests in flight.
C12_OnlySubmitSends ==
  [][/\ last'.ev = "submit" => inflight' = Append(inflight, last'.req)
     /\ last'.ev \in {"resolved", "rejected"} =>
          /\ Len(inflight') = Len(inflight) - 1
          /\ \E i \in DOMAIN inflight :
               /\ inflight[i] = last'.req
               /\ inflight' = RemoveAt(inflight, i)
     /\ last'.ev \notin {"submit", "resolved", "rejected"} =>
          inflight' = inflight]_vars

C12_Witness ==
  /\ last.ev = "rejected"
  /\ Len(inflight) = 0
  /\ IsSome(error)
  /\ last.req.url = CheckBatch

\* The manual fields that hold a character other than white space, as typed
\* and in field order.
ManualNonBlank ==
  LET idx == {i \in DOMAIN questions :
                \E k \in DOMAIN questions[i] : ~IsWs(questions[i][k])}
  IN [j \in 1..Cardinality(idx) |-> questions[NthSmallest(idx, j)]]

\* the multipart endpoint of the revision
FileEndpoint == IF rev = 3 THEN Upload ELSE CheckFile

IsDigit(c) == \E d \in 0..9 : Digit(d) = c
DigitVal(c) == CHOOSE d \in 0..9 : Digit(d) = c

RECURSIVE DigitsVal(_)
DigitsVal(s) ==
  IF s = <<>> THEN 0
  ELSE 10 * DigitsVal(SubSeq(s, 1, Len(s) - 1)) + DigitVal(s[Len(s)])

\* txt is a percentage with exactly two decimal places: digits without a
\* superfluous leading zero, a point, two digits and '%'.
IsTwoDecimalPercent(txt) ==
  /\ Len(txt) >= 5
  /\ txt[Len(txt)] = "%"
  /\ txt[Len(txt) - 3] = "."
  /\ \A k \in (1..(Len(txt) - 1)) \ {Len(txt) - 3} : IsDigit(txt[k])
  /\ Len(txt) > 5 => txt[1] # "0"

\* the value of such a text in hundredths of a percent
PercentHundredths(txt) ==
  100 * DigitsVal(SubSeq(txt, 1, Len(txt) - 4))
    + DigitsVal(SubSeq(txt, Len(txt) - 2, Len(txt) - 1))

\* C14: wherever the markup shows the score of a result whose similarityScore
\* is a number s, the text is s * 100 rounded to the nearest hundredth, written
\* with exactly two decimal places and followed by '%'; 0.8734 is shown as
\* "87.34%".
C14_ScoreFormat ==
  view # Null =>
    \A k \in DOMAIN Val(view).items :
      LET it == Val(view).items[k]
          score == resultsProp[it.index].similarityScore
      IN score.t = "number" /\ it.score # Null =>
           /\ IsTwoDecimalPercent(Val(it.score))
           /\ 10 * PercentHundredths(Val(it.score)) - score.v \in -5..5
           /\ score = Num(87340) =>
                Val(it.score) = <<"8", "7", ".", "3", "4", "%">>

C14_Witness ==
  /\ view # Null
  /\ \E k \in DOMAIN Val(view).items :
       LET it == Val(view).items[k]
       IN /\ resultsProp[it.index].isDuplicate
          /\ resultsProp[it.index].similarityScore = Num(87340)
          /\ it.score = Some(<<"8", "7", ".", "3", "4", "%">>)

\* C15: for a result whose similarityScore is null or missing the markup shows
\* no computed percentage (it shows 'N/A' or leaves the score out), and for a
\* result whose mostSimilarQuestion is null it shows a placeholder or leaves
\* the line out; in every revision of the component.
C15_AbsentFieldsTolerated ==
  view # Null =>
    \A k \in DOMAIN Val(view).items :
      LET it == Val(view).items[k]
          r == resultsProp[it.index]
      IN /\ r.similarityScore \in {Undefined, JsNull} =>
              it.score \in {Null, Some(<<"N", "/", "A">>)}
         /\ r.mostSimilarQuestion = Null =>
              it.similar \in {Null, Similar(0, "another question"),
                              Similar(0, "None")}

\* positions of the duplicates and of the unique questions in a results list
DuplicateIndexes(rs) == {i \in 1..Len(rs) : rs[i].isDuplicate}
UniqueIndexes(rs) == (1..Len(rs)) \ DuplicateIndexes(rs)

\* lst holds exactly the results at the positions S, in the order of results
ListsInOrder(lst, S, rs) ==
  /\ Len(lst) = Cardinality(S)
  /\ \A k \in DOMAIN lst :
       /\ lst[k].originalIndex = NthSmallest(S, k)
       /\ lst[k].result = rs[lst[k].originalIndex]

\* C16: in the revisions that split the results, the unique list and the
\* duplicate list partition the results list (unique iff isDuplicate is
\* false), each in the order of the results list; the unique list is what the
\* unique table shows, and the displayed unique count plus the displayed
\* number of duplicates is the number of results.
C16_Partition ==
  view # Null /\ resultsRev \in {2, 3, 4} =>
    LET v == Val(view)
        unq == uniqueQuestions(resultsProp)
        sim == similarQuestions(resultsProp)
        shownUnique == IF v.uniqueCount = Null THEN 0 ELSE Val(v.uniqueCount)
        shownDuplicates ==
          IF resultsRev = 2 THEN Len(v.items)
          ELSE IF v.duplicateCount = Null THEN 0 ELSE Val(v.duplicateCount)
    IN /\ ListsInOrder(unq, UniqueIndexes(resultsProp), resultsProp)
       /\ ListsInOrder(sim, DuplicateIndexes(resultsProp), resultsProp)
       /\ Len(v.uniqueRows) = Len(unq)
       /\ \A k \in DOMAIN unq : v.uniqueRows[k].index = unq[k].originalIndex
       /\ shownUnique + shownDuplicates = Len(resultsProp)

C16_Witness ==
  /\ view # Null
  /\ resultsRev = 3
  /\ Len(resultsProp) = 5
  /\ Val(view).uniqueCount = Some(2)
  /\ Val(view).duplicateCount = Some(3)
  /\ resultsProp[1].isDuplicate
  /\ ~resultsProp[2].isDuplicate

\* the preview size of the revision
PreviewSize == IF resultsRev = 3 THEN PreviewShort ELSE PreviewLong

\* C17: with D duplicates the notification shows the first min(D, N) of them
\* in list order (N = 3 in revision 3, 5 in revision 4) and a "+ K more" line
\* exactly when D > N, with K = D - N, so the lines shown plus K is the count
\* in the heading.
C17_DuplicatePreview ==
  view # Null /\ resultsRev \in {3, 4} =>
    LET v == Val(view)
        dups == DuplicateIndexes(resultsProp)
        D == Cardinality(dups)
        N == PreviewSize
        K == IF v.more = Null THEN 0 ELSE Val(v.more)
    IN /\ Len(v.items) = IF D < N THEN D ELSE N
       /\ \A k \in DOMAIN v.items : v.items[k].index = NthSmallest(dups, k)
       /\ v.more # Null <=> D > N
       /\ v.more # Null => Val(v.more) = D - N
       /\ D > 0 => v.duplicateCount = Some(Len(v.items) + K)

C17_Witness ==
  /\ view # Null
  /\ resultsRev = 4
  /\ Len(Val(view).items) = PreviewLong
  /\ Val(view).more = Some(2)
  /\ Val(view).duplicateCount = Some(7)

KnownKinds ==
  {"common_words", "similar_start", "similar_end", "same_question_structure"}

\* the label of the template of a known kind
KindLabel(kind) ==
  CASE kind = "common_words" -> "Common words:"
    [] kind = "similar_start" -> "Same beginning:"
    [] kind = "similar_end" -> "Same ending:"
    [] kind = "same_question_structure" ->
         "Both questions follow the same question structure"

\* C18: every item of a result's similarityExplanation produces visible text
\* in the analysis cell: an object of a known kind by the template of its
\* kind, a string as plain text, and an object of an unrecognized or missing
\* kind as plain text as well; no item is dropped.
C18_ExplanationsShown ==
  view # Null /\ resultsRev = 5 =>
    \A i \in DOMAIN Val(view).items :
      LET it == Val(view).items[i]
          r == resultsProp[it.index]
          expl == IF r.similarityExplanation = Null THEN <<>>
                  ELSE Val(r.similarityExplanation)
      IN /\ Len(it.analysis.items) = Len(expl)
         /\ \A k \in DOMAIN expl :
              /\ it.analysis.items[k] # Null
              /\ expl[k].isString =>
                   Val(it.analysis.items[k]).body = <<Val(expl[k].text)>>
              /\ ~expl[k].isString /\ expl[k].type # Null
                   /\ Val(expl[k].type) \in KnownKinds =>
                   Val(it.analysis.items[k]).label = KindLabel(Val(expl[k].type))

\* C19: a run of the export handler sends no request. With N > 0 unique
\* questions the file it writes has exactly N rows, numbered 1..N, the k-th
\* built from the k-th unique question of the results list; if the library
\* fails no file is written and the export error is shown. With no unique
\* question no file is written and the export-specific error is shown.
C19_ExportUniqueSubset ==
  [][last'.ev \in {"export", "export-empty", "export-failed"} =>
       LET uidx == UniqueIndexes(resultsProp)
           N == Cardinality(uidx)
       IN /\ downloads' = downloads
          /\ resets' = resets
          /\ inflight' = inflight
          /\ N = 0 =>
               /\ last'.ev = "export-empty"
               /\ exported' = Null
               /\ downloadError' = Some("No unique questions to download.")
          /\ N > 0 => last'.ev # "export-empty"
          /\ last'.ev = "export" =>
               /\ exported' # Null
               /\ downloadError' = Null
               /\ Len(Val(exported')) = N
               /\ \A k \in 1..N :
                    LET r == resultsProp[NthSmallest(uidx, k)]
                        row == Val(exported')[k]
                    IN /\ row.num = k
                       /\ r.rowData = Null =>
                            row.question = r.question /\ row.extra = Null
                       /\ r.rowData # Null /\ Val(r.rowData).name # "Question"
                            => row.question = r.question
                                 /\ row.extra = r.rowData
          /\ last'.ev = "export-failed" =>
               /\ exported' = exported
               /\ downloadError' =
                    Some("Failed to generate Excel file. Please try again.")]_vars

C19_Witness ==
  /\ last.ev = "export"
  /\ Len(resultsProp) = 3
  /\ resultsProp[2].isDuplicate
  /\ exported # Null
  /\ Len(Val(exported)) = 2
  /\ Val(exported)[2].question = resultsProp[3].question

\* C20: download and reset each have a pending flag of their own: at most one
\* download GET and at most one reset POST is in flight, isDownloading is true
\* exactly while a download is pending and its button is then disabled,
\* resetStatus.loading is true exactly while a reset is pending and its button
\* is then disabled; the form's isSubmitting plays no part.
C20_PendingFlags ==
  /\ downloads <= 1
  /\ resets <= 1
  /\ isDownloading <=> downloads > 0
  /\ downloads > 0 => DownloadDisabled
  /\ resetStatus.loading <=> resets > 0
  /\ resets > 0 => ResetDisabled

\* C21: under the gating of the markup a download-cleaned-file request and a
\* reset request are never in flight together.
C21_NeverBothPending == ~(downloads > 0 /\ resets > 0)

\* C22: the results component never changes the results it is given:
\* rendering, exporting, downloading and resetting, whether the request
\* succeeds or fails, leave the list and every field of every result as they
\* were.
C22_ResultsUntouched == [][resultsProp' = resultsProp]_vars

\* the list has been rendered, a download failed and then a reset failed
C22_Witness ==
  /\ resultsProp # <<>>
  /\ view # Null
  /\ downloadError # Null
  /\ last.ev = "reset-rejected"

\* C23: the stats panel shows the supplied total and duplicate counts, and as
\* unique count the supplied uniqueQuestions whenever it is supplied, 0
\* included; only when it is absent, totalQuestions - duplicatesFound.
C23_StatsAsSupplied ==
  statsPanel # Null =>
    LET st == Val(stats)
        panel == Val(statsPanel)
    IN /\ DigitsVal(panel.total) = st.totalQuestions
       /\ DigitsVal(panel.duplicates) = st.duplicatesFound
       /\ DigitsVal(panel.unique) =
            IF IsSome(st.uniqueQuestions) THEN Val(st.uniqueQuestions)
            ELSE st.totalQuestions - st.duplicatesFound

\* C24: every numbered row shows the 1-based position of its result in the
\* full results list, so the numbers are distinct and lie in 1..Len(results);
\* the number of a unique question in the unique table is the number by which
\* "similar to Question #n" refers to it.
C24_RowNumbers ==
  view # Null =>
    LET rows == Val(view).uniqueRows
        items == Val(view).items
    IN /\ \A k \in DOMAIN rows :
            rows[k].num # Null =>
              /\ Val(rows[k].num) = rows[k].index
              /\ Val(rows[k].num) \in 1..Len(resultsProp)
       /\ \A k, l \in DOMAIN rows :
            rows[k].num # Null /\ rows[k].num = rows[l].num => k = l
       /\ \A i \in DOMAIN items :
            items[i].similar # Null /\ Val(items[i].similar).ref > 0 =>
              \A k \in DOMAIN rows :
                rows[k].index = Val(items[i].similar).ref =>
                  rows[k].num = Some(Val(items[i].similar).ref)

\* C25: the results state held by App is a list in every reachable state,
\* whatever the outcome of a submission, a response without a `results` field
\* included.
C25_ResultsIsList == IsSome(results)

\* C26: while a submission is in flight no input of the form changes, in
\* every revision: a step taken with a request pending changes the manual
\* fields, the pasted text or the file only if it is the settlement of that
\* request, so what a success resets is the input that was submitted.
C26_InputsFrozenInFlight ==
  [][(inflight # <<>> /\ last'.ev \notin {"resolved", "rejected"}) =>
       <<questions, pastedQuestions, file>>' =
         <<questions, pastedQuestions, file>>]_vars

\* C27: in every reachable state at most one of resetStatus.loading,
\* resetStatus.error (non-null) and resetStatus.success holds, whatever the
\* order of reset clicks, responses and runs of the hide timer.
C27_ResetStatusExclusive ==
  /\ ~(resetStatus.loading /\ resetStatus.error # Null)
  /\ ~(resetStatus.loading /\ resetStatus.success)
  /\ ~(resetStatus.error # Null /\ resetStatus.success)

\* a reset has failed while the hide timer of an earlier, successful reset is
\* still scheduled
C27_Witness ==
  /\ timers > 0
  /\ resetStatus.error # Null
  /\ last.ev \in {"reset-refused", "reset-rejected"}

\* C28: the success message of a reset is cleared only by the hide timer that
\* this reset scheduled, or by the start of a new reset. The timers all wait
\* 3000 ms and so run in the order they were scheduled: while the message is
\* shown its own timer is the newest one, and a run of the timer with more
\* than one scheduled is the run of a timer left by an earlier reset.
C28_OnlyOwnTimerHides ==
  [][(last'.ev = "timer" /\ resetStatus.success /\ ~resetStatus'.success) =>
       timers = 1]_vars

\* C29: in the spreadsheet export, row i has '#' = i and 'Question' = the
\* question text of the i-th unique result; rowData only adds columns.
C29_ExportedColumns ==
  exported # Null =>
    LET rows == Val(exported)
        unq == uniqueQuestions(resultsProp)
    IN /\ Len(rows) = Len(unq)
       /\ \A i \in DOMAIN rows :
            /\ rows[i].num = i
            /\ rows[i].question = unq[i].result.question

\* the non-duplicate results whose question is the text txt
Originals(rs, txt) ==
  {j \in 1..Len(rs) : ~rs[j].isDuplicate /\ rs[j].question = txt}

====
